---- MODULE Spec2Model ----
(***************************************************************************)
(* A model of walrus.py, the back-port compiler for assignment            *)
(* expressions: the rewrite engine (Context), the heuristic detectors     *)
(* (guess_tabsize, guess_linesep), parse/convert, the file wrapper walrus *)
(* and main: its line-separator set-up, its file list and the processes    *)
(* that run walrus over the list.                                          *)
(*                                                                         *)
(* Text is a sequence of atoms.  White space and line terminators are one  *)
(* atom per character (" ", "\r", "\n", "\t"), digits are one atom each,   *)
(* and every other atom stands for an indivisible piece of source text.    *)
(***************************************************************************)
EXTENDS Integers, Sequences, FiniteSets, TLC

VARIABLES
    environ,    \* os.environ: the variables the code reads, a text or Unset
    os_linesep, \* os.linesep of the platform
    file,       \* content of the file handed to walrus()
    file0,      \* history: content of the file before walrus() ran
    pc,         \* position of the running call
    text,       \* walrus(): the local `text`; convert(): the argument `string`
    raised,     \* name of the exception that ended the call, "" when none
    ctx,        \* the Context object constructed last
    call,       \* arguments of the call that produced ctx
    disk,       \* main: content of every regular file of the working directory
    disk0,      \* history: disk before main ran
    cpu_cnt,    \* CPU_CNT
    filelist,   \* main: the local `filelist`
    tasks,      \* main: the file names not yet handed to a walrus() call
    procs       \* the processes that run walrus(): position, filename, text

\* the state of main's run over its file list
poolvars == <<disk, disk0, cpu_cnt, filelist, tasks, procs>>

vars == <<environ, os_linesep, file, file0, pc, text, raised, ctx, call,
          disk, disk0, cpu_cnt, filelist, tasks, procs>>

-----------------------------------------------------------------------------
(* Bounds of the model *)

\* largest number of assignment expressions in one generated expression
MaxOcc == 3
\* largest number of lines of a module generated for the line-separator cases
MaxLines == 3
\* longest path from a module to a node handed to Context
MaxPathLen == 3
\* width of one level of indentation in the generated modules
IndentWidth == 4
\* largest number of paths on main's command line
MaxArgs == 2
\* largest CPU_CNT
MaxCpu == 2

-----------------------------------------------------------------------------
(* Text *)

\* the value of an environment variable that is not set
Unset == <<"<unset>">>

CR == <<"\r">>
LF == <<"\n">>
CRLF == <<"\r", "\n">>
TAB == <<"\t">>

\* F(v), with v evaluated once
With(v, F(_)) == CHOOSE r \in {F(x) : x \in {v}} : TRUE

RECURSIVE Flatten(_)
Flatten(seqs) ==
    IF seqs = <<>> THEN <<>> ELSE Head(seqs) \o Flatten(Tail(seqs))

RECURSIVE Join(_, _)
\* str.join
Join(sep, seqs) ==
    IF seqs = <<>> THEN <<>>
    ELSE IF Len(seqs) = 1 THEN seqs[1]
    ELSE seqs[1] \o sep \o Join(sep, Tail(seqs))

\* '\t'.expandtabs(n): a tab at column 0 becomes n spaces
ExpandTab(n) == [i \in 1..n |-> " "]

Digits == <<"0", "1", "2", "3", "4", "5", "6", "7", "8", "9">>

RECURSIVE Str(_)
\* str(n) of a non-negative int, which is what '%s' % n renders
Str(n) ==
    IF n < 10 THEN <<Digits[n + 1]>>
    ELSE Str(n \div 10) \o <<Digits[(n % 10) + 1]>>

DigitValue(d) == (CHOOSE i \in 1..10 : Digits[i] = d) - 1

RECURSIVE IntOf(_)
\* int(s) of a string of decimal digits
IntOf(s) ==
    IF Len(s) = 1 THEN DigitValue(s[1])
    ELSE 10 * IntOf(SubSeq(s, 1, Len(s) - 1)) + DigitValue(s[Len(s)])

UpperChar(c) ==
    CASE c = "c" -> "C"
      [] c = "r" -> "R"
      [] c = "l" -> "L"
      [] c = "f" -> "F"
      [] OTHER -> c

\* str.upper
Upper(s) == [i \in 1..Len(s) |-> UpperChar(s[i])]

\* s.endswith(t)
EndsWith(s, t) ==
    /\ Len(s) >= Len(t)
    /\ SubSeq(s, Len(s) - Len(t) + 1, Len(s)) = t

RECURSIVE SplitFrom(_, _, _)
\* str.splitlines(True): the lines of s with their terminators kept; the
\* terminators are "\r\n", "\r" and "\n", and a last line without a
\* terminator is a line too
SplitFrom(s, i, cur) ==
    IF i > Len(s) THEN (IF cur = <<>> THEN <<>> ELSE <<cur>>)
    ELSE IF s[i] = "\r" /\ i < Len(s) /\ s[i + 1] = "\n"
        THEN <<cur \o CRLF>> \o SplitFrom(s, i + 2, <<>>)
    ELSE IF s[i] = "\r" \/ s[i] = "\n"
        THEN <<cur \o <<s[i]>>>> \o SplitFrom(s, i + 1, <<>>)
    ELSE SplitFrom(s, i + 1, cur \o <<s[i]>>)

Splitlines(s) == SplitFrom(s, 1, <<>>)

\* t occurs in s as a contiguous piece
Contains(s, t) ==
    \E i \in 0..(Len(s) - Len(t)) : SubSeq(s, i + 1, i + Len(t)) = t

RECURSIVE LeadingSpaces(_)
LeadingSpaces(s) ==
    IF s # <<>> /\ Head(s) = " " THEN 1 + LeadingSpaces(Tail(s)) ELSE 0

-----------------------------------------------------------------------------
(* The syntax tree of parso, as far as the code reads it: a node has a    *)
(* type and children, a leaf has a type, a prefix (the white space before *)
(* it) and a value.                                                        *)

LeafTypes == {"name", "number", "operator", "keyword", "newline", "endmarker",
              "error_leaf"}

Leaf(type, prefix, value) ==
    [type |-> type, prefix |-> prefix, value |-> value, children |-> <<>>]

Node(type, children) ==
    [type |-> type, prefix |-> <<>>, value |-> <<>>, children |-> children]

\* hasattr(node, 'children')
HasChildren(node) == node.type \notin LeafTypes

\* isinstance(node, parso.python.tree.Module)
IsModule(node) == node.type = "file_input"

RECURSIVE GetCode(_)
\* node.get_code(): the exact source text of the subtree
GetCode(node) ==
    IF HasChildren(node)
        THEN Flatten([i \in 1..Len(node.children) |-> GetCode(node.children[i])])
        ELSE node.prefix \o node.value

RECURSIVE FirstLeaf(_)
\* node.get_first_leaf()
FirstLeaf(node) ==
    IF HasChildren(node) THEN FirstLeaf(node.children[1]) ELSE node

\* leaf.column of the first leaf of a line: the width of its indentation
Column(leaf) == Len(leaf.prefix)

RECURSIVE NodeAt(_, _)
\* the node reached from root by the child indices of path
NodeAt(root, path) ==
    IF path = <<>> THEN root ELSE NodeAt(root.children[Head(path)], Tail(path))

RECURSIVE PathsOf(_, _)
\* the paths of length at most n to the nodes of the tree
PathsOf(node, n) ==
    {<<>>} \cup
    (IF n = 0 \/ ~HasChildren(node) THEN {}
     ELSE UNION {{<<i>> \o p : p \in PathsOf(node.children[i], n - 1)} :
                 i \in 1..Len(node.children)})

-----------------------------------------------------------------------------
(* Environment *)

\* os.getenv(name, default)
GetEnv(name, default) ==
    IF environ[name] = Unset THEN default ELSE environ[name]

\* __walrus_linesep__
walrus_linesep == GetEnv("WALRUS_LINESEP", os_linesep)

\* __walrus_tabsize__
walrus_tabsize == GetEnv("WALRUS_TABSIZE", <<"4">>)

\* the result of a function that may raise
Return(value) == [raised |-> "", value |-> value]
Raise(error) == [raised |-> error, value |-> <<>>]

-----------------------------------------------------------------------------
(* Heuristic detectors *)

RECURSIVE GuessTabsizeFrom(_, _)
\* the loop of guess_tabsize over node.children, from the i-th child on
GuessTabsizeFrom(node, i) ==
    IF i > Len(node.children)
        THEN IntOf(GetEnv("WALRUS_TABSIZE", walrus_tabsize))
    ELSE LET child == node.children[i] IN
        IF child.type # "suite"
            THEN IF HasChildren(child)
                    THEN GuessTabsizeFrom(child, 1)
                    ELSE GuessTabsizeFrom(node, i + 1)
            ELSE Column(FirstLeaf(child.children[2]))

\* Context.guess_tabsize; a leaf has no attribute `children`
guess_tabsize(node) ==
    IF HasChildren(node)
        THEN Return(GuessTabsizeFrom(node, 1))
        ELSE Raise("AttributeError")

\* the buckets of guess_linesep, in the order of the dict
PoolKeys == <<CR, CRLF, LF>>

\* the bucket a line is counted in
BucketOf(line) ==
    IF EndsWith(line, CR) THEN CR
    ELSE IF EndsWith(line, CRLF) THEN CRLF
    ELSE LF

\* pool: the number of lines of code in each bucket
LinesepPool(code) ==
    With(Splitlines(code), LAMBDA lines :
        [k \in {CR, CRLF, LF} |->
            Cardinality({i \in 1..Len(lines) : BucketOf(lines[i]) = k})])

RECURSIVE InsertByCount(_, _, _)
\* k put into the sorted sequence after every key whose count is not larger
InsertByCount(sorted, k, pool) ==
    IF sorted = <<>> THEN <<k>>
    ELSE IF pool[Head(sorted)] <= pool[k]
        THEN <<Head(sorted)>> \o InsertByCount(Tail(sorted), k, pool)
        ELSE <<k>> \o sorted

RECURSIVE SortedByCount(_, _)
\* sorted(pool, key=lambda k: pool[k]): ascending and stable
SortedByCount(keys, pool) ==
    IF keys = <<>> THEN <<>>
    ELSE InsertByCount(SortedByCount(SubSeq(keys, 1, Len(keys) - 1), pool),
                       keys[Len(keys)], pool)

\* the part of guess_linesep that reads the environment
LinesepFromEnv ==
    LET env == GetEnv("POSEUR_LINESEP", os_linesep)
        env_name == Upper(env)
    IN  IF env_name = <<"C", "R">> THEN Return(CR)
        ELSE IF env_name = <<"C", "R", "L", "F">> THEN Return(CRLF)
        ELSE IF env_name = <<"L", "F">> THEN Return(LF)
        ELSE IF env \in {CR, CRLF, LF} THEN Return(env)
        ELSE Raise("EnvironError")

\* Context.guess_linesep(node), code being node.get_root_node().get_code()
guess_linesep(code) ==
    With(code, LAMBDA c :
    With(LinesepPool(c), LAMBDA pool :
    With(SortedByCount(PoolKeys, pool), LAMBDA sort :
        IF pool[sort[1]] > pool[sort[2]]
            THEN Return(sort[1])
            ELSE LinesepFromEnv)))

-----------------------------------------------------------------------------
(* The rewrite engine *)

\* uuid.uuid4().hex: the value of the k-th draw of the process; the draws are
\* taken to be pairwise different
Uuid4(k) == <<"uuid" \o ToString(k)>>

\* the order of the one-character identifiers of the model
Alphabet == <<"a", "b", "f", "C">>
Ord(name) == CHOOSE i \in 1..Len(Alphabet) : Alphabet[i] = name[1]

\* FUNC_TEMPLATE % dict(...), line by line; the atom "BACKQUOTE" stands for
\* the grave accent of the docstring
FuncTemplate(func, keyword, tabsize) ==
    LET ts == Str(tabsize) IN
    << <<>>,
       <<"def ", "__walrus_wrapper_">> \o func.name \o <<"_">> \o func.uuid
           \o <<"():">>,
       ts \o <<"\"\"\"Wrapper function for assignment expression ", "BACKQUOTE">>
           \o func.expr \o <<"BACKQUOTE", ".\"\"\"">>,
       ts \o keyword \o <<" ">> \o func.name,
       ts \o func.name \o <<" = ">> \o func.expr,
       ts \o <<"return ">> \o func.name >>

\* the text that replaces an assignment expression
WrapperCall(name, nuid) ==
    <<"__walrus_wrapper_">> \o name \o <<"_">> \o nuid \o <<"()">>

\* the declaration line of _concat
DeclLine(indent, name, linesep) ==
    indent \o name \o <<" = locales().get(", "'">> \o name \o <<"'", ")">>
        \o linesep

RECURSIVE SortedNames(_)
\* sorted(set(names))
SortedNames(S) ==
    IF S = {} THEN <<>>
    ELSE LET m == CHOOSE n \in S : \A o \in S : Ord(n) <= Ord(o)
         IN  <<m>> \o SortedNames(S \ {m})

RECURSIVE InsertByName(_, _)
InsertByName(sorted, f) ==
    IF sorted = <<>> THEN <<f>>
    ELSE IF Ord(Head(sorted).name) <= Ord(f.name)
        THEN <<Head(sorted)>> \o InsertByName(Tail(sorted), f)
        ELSE <<f>> \o sorted

RECURSIVE SortedByName(_)
\* sorted(funcs, key=lambda func: func['name']): ascending and stable
SortedByName(funcs) ==
    IF funcs = <<>> THEN <<>>
    ELSE InsertByName(SortedByName(SubSeq(funcs, 1, Len(funcs) - 1)),
                      funcs[Len(funcs)])

\* the keyword _concat writes into the wrappers
Keyword(self) == IF self.column > 0 THEN <<"nonlocal">> ELSE <<"global">>

\* Context._concat
Concat(self) ==
    LET indent == ExpandTab(self.column)
        names == SortedNames({self.vars[i] : i \in 1..Len(self.vars)})
        decls == Flatten([i \in 1..Len(names) |->
                            DeclLine(indent, names[i], self.linesep)])
        funcs == SortedByName(self.func)
        defs == Flatten([i \in 1..Len(funcs) |->
                    Join(self.linesep \o indent,
                         FuncTemplate(funcs[i], Keyword(self), self.tabsize))
                    \o self.linesep])
        buffer == self.buffer \o self.prefix \o decls \o defs \o self.suffix
    IN  [self EXCEPT !.buffer = buffer, !.string = buffer]

\* the append to the active buffer
Emit(self, code) ==
    IF self.insert THEN [self EXCEPT !.prefix = @ \o code]
                   ELSE [self EXCEPT !.suffix = @ \o code]

\* Context._process_module: the body is a docstring
ProcessModule(self, node) == self

\* Context._process_funcdef: the body is a docstring
ProcessFuncdef(self, node) == self

\* Context._process_classdef: the body is a docstring
ProcessClassdef(self, node) == self

RECURSIVE Process(_, _)
RECURSIVE ProcessChildren(_, _, _)
RECURSIVE ProcessNamedexprTest(_, _)
RECURSIVE Context(_, _, _, _, _)

\* Context._process
Process(self, node) ==
    IF IsModule(node) THEN ProcessModule(self, node)
    ELSE IF HasChildren(node) THEN ProcessChildren(self, node, 1)
    ELSE Emit(self, GetCode(node))

\* the loop of _process over node.children, from the i-th child on:
\* getattr(self, '_process_%s' % child.type, self._process)(child)
ProcessChildren(self, node, i) ==
    IF i > Len(node.children) THEN self
    ELSE With(node.children[i], LAMBDA child :
         With(CASE child.type = "module" -> ProcessModule(self, child)
                [] child.type = "namedexpr_test" ->
                       ProcessNamedexprTest(self, child)
                [] child.type = "funcdef" -> ProcessFuncdef(self, child)
                [] child.type = "classdef" -> ProcessClassdef(self, child)
                [] OTHER -> Process(self, child),
              LAMBDA next : ProcessChildren(next, node, i + 1)))

\* Context._process_namedexpr_test
ProcessNamedexprTest(self, node) ==
    LET node_name == node.children[1]
        node_expr == node.children[3]
        name == node_name.value
        nuid == Uuid4(self.drawn)
    IN  With(Context(node_expr, self.indent, self.tabsize, self.linesep,
                     self.drawn + 1), LAMBDA inner :
        [Emit(self, WrapperCall(name, nuid)) EXCEPT
            !.vars = Append(@, name),
            !.func = Append(@, [name |-> name, expr |-> inner.string,
                                uuid |-> nuid]),
            !.drawn = inner.drawn])

\* Context.__init__ with tabsize and linesep given; drawn is the number of
\* uuid4 draws made before
Context(node, column, tabsize, linesep, drawn) ==
    LET self == [column |-> column, tabsize |-> tabsize, linesep |-> linesep,
                 indent |-> column, insert |-> TRUE,
                 prefix |-> <<>>, suffix |-> <<>>, buffer |-> <<>>,
                 vars |-> <<>>, func |-> <<>>, string |-> <<>>,
                 drawn |-> drawn, raised |-> ""]
    IN  Concat(Process(self, node))

\* a Context whose construction raised
NoContext(error) ==
    [column |-> 0, tabsize |-> 0, linesep |-> <<>>,
     indent |-> 0, insert |-> TRUE,
     prefix |-> <<>>, suffix |-> <<>>, buffer |-> <<>>,
     vars |-> <<>>, func |-> <<>>, string |-> <<>>, drawn |-> 0,
     raised |-> error]

\* Context(node, column, tabsize, linesep) as a caller writes it: tabsize and
\* linesep are <<>> for None or <<value>>; root is node.get_root_node()
NewContext(root, path, column, tabsize, linesep) ==
    With(NodeAt(root, path), LAMBDA node :
    With(IF tabsize = <<>> THEN guess_tabsize(node)
                           ELSE Return(tabsize[1]), LAMBDA ts :
    IF ts.raised # "" THEN NoContext(ts.raised)
    ELSE With(IF linesep = <<>> THEN guess_linesep(GetCode(root))
                                ELSE Return(linesep[1]), LAMBDA ls :
         IF ls.raised # "" THEN NoContext(ls.raised)
         ELSE Context(node, column, ts.value, ls.value, 0))))

-----------------------------------------------------------------------------
(* parse, convert *)

\* the source texts the model takes from, as the trees parso builds for them

Names == {<<"a">>, <<"b">>}
SP == <<" ">>

Num(pre) == Leaf("number", pre, <<"1">>)

\* name := expr
NamedExpr(pre, name, expr) ==
    Node("namedexpr_test",
         <<Leaf("name", pre, name), Leaf("operator", SP, <<":=">>), expr>>)

\* ( inner )
Paren(pre, inner) ==
    Node("atom", <<Leaf("operator", pre, <<"(">>), inner,
                   Leaf("operator", <<>>, <<")">>)>>)

\* x + y
Arith(x, y) == Node("arith_expr", <<x, Leaf("operator", SP, <<"+">>), y>>)

RECURSIVE OperandK(_, _)
RECURSIVE ExprK(_, _)

\* the operands with exactly k assignment expressions: 1 or (name := expr)
OperandK(k, pre) ==
    IF k = 0 THEN {Num(pre)}
    ELSE {Paren(pre, NamedExpr(<<>>, n, e)) : n \in Names, e \in ExprK(k - 1, SP)}

\* the expressions with exactly k assignment expressions: an operand, an
\* operand + 1, or the sum of two operands that each hold one at least
ExprK(k, pre) ==
    IF k = 0 THEN {Num(pre)}
    ELSE OperandK(k, pre)
         \cup {Arith(x, Num(SP)) : x \in OperandK(k, pre)}
         \cup UNION {{Arith(x, y) : x \in OperandK(i, pre),
                                    y \in OperandK(k - i, SP)} : i \in 1..(k - 1)}

Exprs(pre, n) == UNION {ExprK(k, pre) : k \in 0..n}

Newline(nl) == Leaf("newline", <<>>, nl)
EndMarker == Leaf("endmarker", <<>>, <<>>)

SimpleStmt(expr, nl) == Node("simple_stmt", <<expr, Newline(nl)>>)

Suite(stmts, nl) == Node("suite", <<Newline(nl)>> \o stmts)

IfStmt(pre, suite) ==
    Node("if_stmt", <<Leaf("keyword", pre, <<"if">>), Leaf("number", SP, <<"1">>),
                      Leaf("operator", <<>>, <<":">>), suite>>)

Funcdef(pre, suite) ==
    Node("funcdef",
         <<Leaf("keyword", pre, <<"def">>), Leaf("name", SP, <<"f">>),
           Node("parameters", <<Leaf("operator", <<>>, <<"(">>),
                                Leaf("operator", <<>>, <<")">>)>>),
           Leaf("operator", <<>>, <<":">>), suite>>)

Classdef(pre, suite) ==
    Node("classdef", <<Leaf("keyword", pre, <<"class">>), Leaf("name", SP, <<"C">>),
                       Leaf("operator", <<>>, <<":">>), suite>>)

Compound(kind, pre, suite) ==
    CASE kind = "if_stmt" -> IfStmt(pre, suite)
      [] kind = "funcdef" -> Funcdef(pre, suite)
      [] kind = "classdef" -> Classdef(pre, suite)

Module(stmts) == Node("file_input", stmts \o <<EndMarker>>)

Indent(level) == ExpandTab(level * IndentWidth)

\* one statement per expression
ExprModules == {Module(<<SimpleStmt(e, LF)>>) : e \in Exprs(<<>>, MaxOcc)}

\* the simple statements of a block
BlockStmts(level, nl) == {SimpleStmt(e, nl) : e \in Exprs(Indent(level), 1)}

\* function and class definitions inside a block
InnerDefs(level, nl) ==
    {Compound(kind, Indent(level), Suite(<<s>>, nl)) :
        kind \in {"funcdef", "classdef"},
        s \in {SimpleStmt(e, nl) : e \in OperandK(1, Indent(level + 1))}}

\* the bodies of a block: a statement, a definition, or a statement and a
\* definition after it
BlockBodies(level, nl) ==
    {<<s>> : s \in BlockStmts(level, nl) \cup InnerDefs(level, nl)}
    \cup {<<s, d>> : s \in {SimpleStmt(e, nl) : e \in OperandK(1, Indent(level))},
                     d \in InnerDefs(level, nl)}

\* one compound statement at the top of a module, every line ending in nl
BlockModulesOf(nl) ==
    {Module(<<Compound(kind, <<>>, Suite(body, nl))>>) :
        kind \in {"if_stmt", "funcdef"}, body \in BlockBodies(1, nl)}

BlockModules == BlockModulesOf(LF) \cup BlockModulesOf(CRLF)

RECURSIVE LineSeqs(_)
\* the sequences of n statements `1`, each line with its own terminator
LineSeqs(n) ==
    IF n = 0 THEN {<<>>}
    ELSE {<<SimpleStmt(Num(<<>>), nl)>> \o rest :
            nl \in {CR, CRLF, LF}, rest \in LineSeqs(n - 1)}

\* modules of up to MaxLines lines; the last line may lack its terminator
LineModules ==
    UNION {{Module(ls) : ls \in LineSeqs(n)} \cup
           {Module(ls \o <<SimpleStmt(Num(<<>>), <<>>)>>) : ls \in LineSeqs(n - 1)} :
           n \in 1..MaxLines}

Modules == ExprModules \cup BlockModules \cup LineModules \cup {Module(<<>>)}

\* every module with its source text
Sources == {<<GetCode(m), m>> : m \in Modules}

\* the tree parso builds for each source text
TreeOf ==
    [code \in {p[1] : p \in Sources} |->
        (CHOOSE p \in Sources : p[1] = code)[2]]

\* texts the grammar rejects
BadTexts == {<<"(">> \o LF, <<"a", " ", ":=">> \o LF, <<"1", " ", "+">> \o CRLF}

\* parse with error_recovery left at parso's default: a text the grammar
\* rejects yields a tree that holds it in an error leaf
ParseRecovering(string) ==
    IF string \in DOMAIN TreeOf
        THEN Return(TreeOf[string])
        ELSE Return(Module(<<Leaf("error_leaf", <<>>, string)>>))

\* parse(string, source): parso.parse returns the tree whose code is string,
\* or raises ParserSyntaxError, which parse turns into ConvertError
Parse(string) ==
    IF string \in DOMAIN TreeOf THEN Return(TreeOf[string])
                                ELSE Raise("ConvertError")

\* convert(string, source)
Convert(string) ==
    With(Parse(string), LAMBDA module :
    IF module.raised # ""
        THEN [raised |-> module.raised, value |-> <<>>,
              ctx |-> NoContext(module.raised)]
    ELSE With(NewContext(module.value, <<>>, 0, <<>>, <<>>), LAMBDA c :
         IF c.raised # "" THEN [raised |-> c.raised, value |-> <<>>, ctx |-> c]
         ELSE [raised |-> "", value |-> c.string, ctx |-> c]))

-----------------------------------------------------------------------------
(* The calls *)

EnvNames == {"POSEUR_LINESEP", "WALRUS_LINESEP", "WALRUS_TABSIZE"}

NoCall == [root |-> Module(<<>>), path |-> <<>>, column |-> 0,
           tabsize |-> <<>>, linesep |-> <<>>]

\* the values a caller gives for column, tabsize and linesep
ColumnArgs == {0, IndentWidth, 2 * IndentWidth}
TabsizeArgs == {<<>>, <<2>>}
LinesepArgs == {<<>>, <<CRLF>>}

\* Context(node, column, tabsize, linesep), node being the node of root at path
ConstructContext(root, path, column, tabsize, linesep) ==
    /\ pc = "start"
    /\ ctx' = NewContext(root, path, column, tabsize, linesep)
    /\ call' = [root |-> root, path |-> path, column |-> column,
                tabsize |-> tabsize, linesep |-> linesep]
    /\ raised' = ctx'.raised
    /\ pc' = IF ctx'.raised = "" THEN "constructed" ELSE "raised"
    /\ UNCHANGED <<environ, os_linesep, file, file0, text>>
    /\ UNCHANGED poolvars

\* the values of --linesep; Unset when the option is not given
LinesepOptions == {Unset, <<"C", "R">>, <<"c", "r", "l", "f">>, LF, TAB}

\* main: the line-separator block, args.linesep defaulting to
\* __walrus_linesep__
MainLinesep(option) ==
    /\ pc = "start"
    /\ LET args_linesep == IF option = Unset THEN walrus_linesep ELSE option
           linesep == Upper(args_linesep)
           set(value) ==
               /\ environ' = [environ EXCEPT !["POSEUR_LINESEP"] = value]
               /\ pc' = "main"
               /\ raised' = ""
       IN  IF linesep = <<"C", "R">> THEN set(CR)
           ELSE IF linesep = <<"C", "R", "L", "F">> THEN set(CRLF)
           ELSE IF linesep = <<"L", "F">> THEN set(LF)
           ELSE IF args_linesep \in {CR, CRLF, LF} THEN set(args_linesep)
           ELSE /\ raised' = "EnvironError"
                /\ pc' = "raised"
                /\ UNCHANGED environ
    /\ UNCHANGED <<os_linesep, file, file0, text, ctx, call>>
    /\ UNCHANGED poolvars

\* walrus(filename): open(filename, 'r') and file.read(); the call comes from
\* main or from a caller of the module
WalrusRead ==
    /\ pc \in {"start", "main"}
    /\ text' = file
    /\ pc' = "read"
    /\ UNCHANGED <<environ, os_linesep, file, file0, raised, ctx, call>>
    /\ UNCHANGED poolvars

\* walrus(filename): text = convert(text, filename)
WalrusConvert ==
    /\ pc = "read"
    /\ \E result \in {Convert(text)} :
        /\ ctx' = result.ctx
        /\ raised' = result.raised
        /\ text' = IF result.raised = "" THEN result.value ELSE text
        /\ pc' = IF result.raised = "" THEN "converted" ELSE "raised"
    /\ call' = NoCall
    /\ UNCHANGED <<environ, os_linesep, file, file0>>
    /\ UNCHANGED poolvars

\* walrus(filename): open(filename, 'w') and file.write(text)
WalrusWrite ==
    /\ pc = "converted"
    /\ file' = text
    /\ pc' = "done"
    /\ UNCHANGED <<environ, os_linesep, file0, text, raised, ctx, call>>
    /\ UNCHANGED poolvars

-----------------------------------------------------------------------------
(* Specifications *)

\* the environments a call starts in
Environs ==
    {[n \in EnvNames |-> IF n = "POSEUR_LINESEP" THEN p
                         ELSE IF n = "WALRUS_LINESEP" THEN w
                         ELSE Unset] :
        p \in {Unset, TAB}, w \in {Unset, TAB, <<"L", "F">>}}

\* the contents of the file
Files == {GetCode(m) : m \in LineModules \cup BlockModules \cup
                             {Module(<<SimpleStmt(e, LF)>>) : e \in Exprs(<<>>, 1)}}
         \cup BadTexts

InitCommon ==
    /\ pc = "start"
    /\ text = <<>>
    /\ raised = ""
    /\ ctx = NoContext("")
    /\ call = NoCall

\* main does not run: no file list and no process
InitNoPool ==
    /\ disk = <<>>
    /\ disk0 = <<>>
    /\ cpu_cnt = 1
    /\ filelist = <<>>
    /\ tasks = <<>>
    /\ procs = <<>>

\* walrus() on one file, from main or called directly
Init ==
    /\ InitCommon
    /\ InitNoPool
    /\ environ \in Environs
    /\ os_linesep \in {LF, CRLF}
    /\ file \in Files
    /\ file0 = file

Next ==
    \/ \E option \in LinesepOptions : MainLinesep(option)
    \/ WalrusRead
    \/ WalrusConvert
    \/ WalrusWrite

Spec == Init /\ [][Next]_vars

\* one construction of a Context on a node of a parsed module
InitContext ==
    /\ InitCommon
    /\ InitNoPool
    /\ environ \in {e \in Environs : e["WALRUS_LINESEP"] = Unset}
    /\ os_linesep = LF
    /\ file = <<>>
    /\ file0 = <<>>

NextContext ==
    /\ pc = "start"
    /\ \E root \in Modules :
           \E path \in PathsOf(root, MaxPathLen), column \in ColumnArgs,
              tabsize \in TabsizeArgs, linesep \in LinesepArgs :
               ConstructContext(root, path, column, tabsize, linesep)

SpecContext == InitContext /\ [][NextContext]_vars

-----------------------------------------------------------------------------
(* main over its file list *)

\* A path is a sequence of atoms: names, "/" and a final extension.
PathAtoms == <<".py", ".pyw", ".txt", "/", "a", "b", "data", "notes", "pkg">>
Extensions == {".py", ".pyw", ".txt"}

PkgDir == <<"pkg">>
PkgA == <<"pkg", "/", "a", ".py">>
PkgData == <<"pkg", "/", "data", ".txt">>
BPy == <<"b", ".py">>
NotesTxt == <<"notes", ".txt">>

\* the regular files and the directories of the working directory
RegularFiles == {PkgA, PkgData, BPy, NotesTxt}
Directories == {PkgDir}

\* the paths a command line names
ArgPaths == {PkgDir, PkgA, BPy, NotesTxt}

\* os.path.isfile, os.path.isdir
IsFile(path) == path \in RegularFiles
IsDir(path) == path \in Directories

\* find(root): the regular files under root
Find(root) == IF root = PkgDir THEN <<PkgA, PkgData>> ELSE <<>>

\* os.path.splitext(file)[1]
Splitext(path) ==
    IF Len(path) > 1 /\ path[Len(path)] \in Extensions
        THEN path[Len(path)] ELSE ""

\* ispy = lambda file: isfile(file) and splitext(file)[1] in ('.py', '.pyw')
IsPy(path) == IsFile(path) /\ Splitext(path) \in {".py", ".pyw"}

\* the place of an atom of a path in the order of strings
AtomRank(a) == CHOOSE i \in 1..Len(PathAtoms) : PathAtoms[i] = a

\* p < q for two paths, as Python compares strings
RECURSIVE PathLess(_, _)
PathLess(p, q) ==
    IF q = <<>> THEN FALSE
    ELSE IF p = <<>> THEN TRUE
    ELSE IF p[1] = q[1] THEN PathLess(Tail(p), Tail(q))
    ELSE AtomRank(p[1]) < AtomRank(q[1])

\* sorted(...) of a list of paths, equal paths kept
RECURSIVE InsertPath(_, _)
InsertPath(path, sorted) ==
    IF sorted = <<>> THEN <<path>>
    ELSE IF PathLess(path, sorted[1]) THEN <<path>> \o sorted
    ELSE <<sorted[1]>> \o InsertPath(path, Tail(sorted))

RECURSIVE SortedPaths(_)
SortedPaths(list) ==
    IF list = <<>> THEN <<>>
    ELSE InsertPath(list[Len(list)], SortedPaths(SubSeq(list, 1, Len(list) - 1)))

\* main: the loop `for path in args.file` that fills filelist
RECURSIVE FetchFileList(_)
FetchFileList(args_file) ==
    IF args_file = <<>> THEN <<>>
    ELSE (IF IsFile(args_file[1]) THEN <<args_file[1]>> ELSE <<>>)
         \o (IF IsDir(args_file[1]) THEN Find(args_file[1]) ELSE <<>>)
         \o FetchFileList(Tail(args_file))

\* the command lines: one path or more (nargs='+')
ArgFiles == UNION {[1..n -> ArgPaths] : n \in 1..MaxArgs}

\* a process that runs no walrus() call
Idle == [pc |-> "idle", filename |-> <<>>, text |-> <<>>]

\* main: `if mp is None or CPU_CNT <= 1`
Sequential == cpu_cnt <= 1

\* main: fetch the file list, keep the Python sources, sort; then either the
\* main process makes the calls or a pool of CPU_CNT processes does
MainFileList(args_file) ==
    /\ pc = "main"
    /\ \E list \in {SortedPaths(SelectSeq(FetchFileList(args_file), IsPy))} :
        IF list = <<>>
            THEN /\ raised' = "SystemExit"
                 /\ pc' = "raised"
                 /\ UNCHANGED <<filelist, tasks, procs>>
            ELSE /\ filelist' = list
                 /\ tasks' = list
                 /\ procs' = [w \in 1..(IF Sequential THEN 1 ELSE cpu_cnt) |-> Idle]
                 /\ pc' = "pool"
                 /\ UNCHANGED raised
    /\ UNCHANGED <<environ, os_linesep, file, file0, text, ctx, call,
                   disk, disk0, cpu_cnt>>

\* what a step of a process leaves alone
ProcFrame == UNCHANGED <<environ, os_linesep, file, file0, pc, text, ctx, call,
                         disk0, cpu_cnt, filelist>>

\* a process takes the next file name: walrus(filename) starts and opens the
\* file for reading
WalrusOpenRead(w) ==
    /\ pc = "pool"
    /\ procs[w].pc = "idle"
    /\ tasks # <<>>
    /\ procs' = [procs EXCEPT ![w] = [pc |-> "reading", filename |-> Head(tasks),
                                      text |-> <<>>]]
    /\ tasks' = Tail(tasks)
    /\ UNCHANGED <<disk, raised>>
    /\ ProcFrame

\* walrus(filename): text = file.read(), and the file is closed
WalrusReadText(w) ==
    /\ pc = "pool"
    /\ procs[w].pc = "reading"
    /\ procs' = [procs EXCEPT ![w].pc = "read",
                              ![w].text = disk[procs[w].filename]]
    /\ UNCHANGED <<disk, raised, tasks>>
    /\ ProcFrame

\* walrus(filename): text = convert(text, filename).  An exception ends the
\* call; in the main process it ends the list comprehension, in a pool it is
\* kept for pool.map to raise once every call has ended
WalrusConvertText(w) ==
    /\ pc = "pool"
    /\ procs[w].pc = "read"
    /\ \E result \in {Convert(procs[w].text)} :
        IF result.raised = ""
            THEN /\ procs' = [procs EXCEPT ![w].pc = "converted",
                                           ![w].text = result.value]
                 /\ UNCHANGED <<raised, tasks>>
            ELSE /\ procs' = [procs EXCEPT ![w] = Idle]
                 /\ raised' = IF raised = "" THEN result.raised ELSE raised
                 /\ tasks' = IF Sequential THEN <<>> ELSE tasks
    /\ UNCHANGED disk
    /\ ProcFrame

\* walrus(filename): open(filename, 'w') truncates the file
WalrusOpenWrite(w) ==
    /\ pc = "pool"
    /\ procs[w].pc = "converted"
    /\ disk' = [disk EXCEPT ![procs[w].filename] = <<>>]
    /\ procs' = [procs EXCEPT ![w].pc = "writing"]
    /\ UNCHANGED <<raised, tasks>>
    /\ ProcFrame

\* walrus(filename): file.write(text), the file is closed and the call returns
WalrusWriteText(w) ==
    /\ pc = "pool"
    /\ procs[w].pc = "writing"
    /\ disk' = [disk EXCEPT ![procs[w].filename] = procs[w].text]
    /\ procs' = [procs EXCEPT ![w] = Idle]
    /\ UNCHANGED <<raised, tasks>>
    /\ ProcFrame

\* main: every call has ended; an exception of a call is raised in main
MainJoin ==
    /\ pc = "pool"
    /\ tasks = <<>>
    /\ \A w \in DOMAIN procs : procs[w].pc = "idle"
    /\ pc' = IF raised = "" THEN "done" ELSE "raised"
    /\ UNCHANGED <<environ, os_linesep, file, file0, text, raised, ctx, call>>
    /\ UNCHANGED poolvars

\* the contents of a Python source file on the disk
PoolTexts == {<<"1">> \o LF,
              GetCode(Module(<<SimpleStmt(Paren(<<>>, NamedExpr(<<>>, <<"a">>, Num(SP))), LF)>>)),
              <<"(">> \o LF}

\* main on a command line, in a working directory of two Python sources
InitPool ==
    /\ InitCommon
    /\ environ \in {e \in Environs : e["POSEUR_LINESEP"] = Unset}
    /\ os_linesep = LF
    /\ file = <<>>
    /\ file0 = <<>>
    /\ disk \in {[f \in RegularFiles |->
                    IF f = PkgA THEN a ELSE IF f = BPy THEN b ELSE <<"text">>] :
                 a \in PoolTexts, b \in PoolTexts}
    /\ disk0 = disk
    /\ cpu_cnt \in 1..MaxCpu
    /\ filelist = <<>>
    /\ tasks = <<>>
    /\ procs = <<>>

NextPool ==
    \/ \E option \in LinesepOptions : MainLinesep(option)
    \/ \E args_file \in ArgFiles : MainFileList(args_file)
    \/ \E w \in DOMAIN procs : WalrusOpenRead(w)
    \/ \E w \in DOMAIN procs : WalrusReadText(w)
    \/ \E w \in DOMAIN procs : WalrusConvertText(w)
    \/ \E w \in DOMAIN procs : WalrusOpenWrite(w)
    \/ \E w \in DOMAIN procs : WalrusWriteText(w)
    \/ MainJoin

SpecPool == InitPool /\ [][NextPool]_vars

-----------------------------------------------------------------------------
(* What the properties speak of *)

\* the number of places of the text s that hold the atom a
AtomCount(s, a) == Cardinality({i \in 1..Len(s) : s[i] = a})

\* the number of declaration lines for name in the text s
DeclCount(s, name) ==
    Cardinality({i \in 2..Len(s) :
                    s[i] = " = locales().get(" /\ s[i - 1] = name[1]})

\* the number of helper definitions in the text s
DefCount(s) == AtomCount(s, "def ")

\* the number of helper calls in the text s
CallCount(s) == AtomCount(s, "()")

\* the atoms only generated lines hold
GeneratedAtoms ==
    {" = locales().get(", "def ", "global", "nonlocal", " = ", "return ",
     "\"\"\"Wrapper function for assignment expression "}

RECURSIVE SumSeq(_)
SumSeq(ns) == IF ns = <<>> THEN 0 ELSE Head(ns) + SumSeq(Tail(ns))

RECURSIVE OccCount(_)
\* the number of assignment expressions in the subtree
OccCount(node) ==
    IF ~HasChildren(node) THEN 0
    ELSE (IF node.type = "namedexpr_test" THEN 1 ELSE 0)
         + SumSeq([i \in 1..Len(node.children) |-> OccCount(node.children[i])])

RECURSIVE MetBelow(_, _)
\* the children of kind `types` that the traversal of a scope meets below
\* node, in document order: it looks into every child that is neither an
\* assignment expression nor a function or class definition
MetBelow(node, types) ==
    IF ~HasChildren(node) THEN <<>>
    ELSE Flatten([i \in 1..Len(node.children) |->
            With(node.children[i], LAMBDA child :
                IF child.type \in types THEN <<child>>
                ELSE IF child.type \in {"namedexpr_test", "funcdef", "classdef"}
                    THEN <<>>
                ELSE MetBelow(child, types))])

\* the assignment expressions the traversal of a scope rooted at node meets;
\* a scope rooted at a module is not traversed
MetOccurrences(node) ==
    IF IsModule(node) THEN <<>> ELSE MetBelow(node, {"namedexpr_test"})

\* the function and class definitions the traversal meets
MetDefinitions(node) ==
    IF IsModule(node) THEN <<>> ELSE MetBelow(node, {"funcdef", "classdef"})

RECURSIVE ScopeAlong(_, _, _)
\* the kind of the innermost scope around the children of the node of root
\* at path: "module", "funcdef" or "classdef"
ScopeAlong(node, path, scope) ==
    With(IF node.type \in {"funcdef", "classdef"} THEN node.type ELSE scope,
         LAMBDA here :
            IF path = <<>> THEN here
            ELSE ScopeAlong(node.children[Head(path)], Tail(path), here))

ScopeOf(root, path) == ScopeAlong(root, path, "module")

\* the bucket with the strictly highest count, <<>> when the two highest tie
Majority(code) ==
    With(LinesepPool(code), LAMBDA pool :
        With({k \in DOMAIN pool : \A o \in DOMAIN pool \ {k} : pool[k] > pool[o]},
             LAMBDA top : IF top = {} THEN <<>> ELSE CHOOSE k \in top : TRUE))

\* the node a constructed Context was given
CallNode == NodeAt(call.root, call.path)

Constructed == pc = "constructed"

-----------------------------------------------------------------------------
(* Properties of convert and walrus, under Spec *)

\* the module of the text walrus() read, when it parses
Parsed == Parse(file0)

\* convert has returned to walrus()
Converted == pc \in {"converted", "done"}

\* C1: for a source text that parses and holds no assignment expression,
\* convert returns exactly the text
C1_ConstructFreeUnchanged ==
    (pc = "converted" /\ OccCount(Parsed.value) = 0) => text = file0

\* C2: for a source text that holds exactly one assignment expression, the
\* text convert returns holds exactly one helper definition, one declaration
\* line for its name and one helper call
C2_OneOccurrenceOneHelper ==
    (pc = "converted" /\ OccCount(Parsed.value) = 1) =>
        /\ DefCount(text) = 1
        /\ CallCount(text) = 1
        /\ \E n \in Names : DeclCount(text, n) = 1
        /\ SumSeq([i \in 1..Len(text) |->
                    IF text[i] = " = locales().get(" THEN 1 ELSE 0]) = 1

\* the two highest counts of the line endings of the file tie
NoMajority == Majority(file0) = <<>>

\* walrus() was called without main having set the separator up, so that the
\* configured separator is the WALRUS_LINESEP setting
CalledDirectly == environ["POSEUR_LINESEP"] \notin {CR, CRLF, LF}

\* the configured separator names none of CR, CRLF, LF
InvalidSetting ==
    /\ environ["WALRUS_LINESEP"] # Unset
    /\ Upper(environ["WALRUS_LINESEP"]) \notin
           {<<"C", "R">>, <<"C", "R", "L", "F">>, <<"L", "F">>, CR, CRLF, LF}

\* C7: with no line-separator majority in the source and a configured
\* separator that is none of CR, CRLF, LF, the conversion fails with
\* EnvironError and produces no output
C7_InvalidSeparatorRejected ==
    (CalledDirectly /\ InvalidSetting /\ NoMajority /\ Parsed.raised = "") =>
        /\ ~Converted
        /\ (pc = "raised" => raised = "EnvironError")

\* C8: when the text of the file does not parse, convert raises ConvertError,
\* no rewritten text is produced and the file keeps its content
C8_ParseFailureLeavesFile ==
    file0 \in BadTexts =>
        /\ file = file0
        /\ ~Converted
        /\ (pc = "raised" /\ text = file0) => raised = "ConvertError"

\* C8, witness: walrus() read a file that does not parse and convert raised
C8_Witness ==
    /\ file0 \in BadTexts
    /\ pc = "raised"
    /\ text = file0
    /\ raised = "ConvertError"
    /\ file = file0

-----------------------------------------------------------------------------
(* Properties of one Context, under SpecContext *)

\* the i-th and the j-th helper of the scope have different identifiers
DistinctHelpers(i, j) ==
    <<ctx.func[i].name, ctx.func[i].uuid>> # <<ctx.func[j].name, ctx.func[j].uuid>>

\* C3: when one scope meets two or more assignment expressions of one name,
\* every occurrence has its own unique id, and the output of the scope holds
\* exactly one declaration line for that name
C3_RepeatedNameOneDeclaration ==
    Constructed =>
        \A n \in Names :
            Cardinality({i \in 1..Len(ctx.func) : ctx.func[i].name = n}) >= 2 =>
                /\ \A i, j \in 1..Len(ctx.func) : i # j => DistinctHelpers(i, j)
                /\ \A i, j \in 1..Len(ctx.func) :
                       i # j => ctx.func[i].uuid # ctx.func[j].uuid
                /\ DeclCount(ctx.string, n) = 1

\* C4: the expression source captured for an occurrence that holds another
\* occurrence has the inner helper call in place of the inner construct and
\* nothing but the rewritten expression: no declaration line and no helper
\* definition
C4_InnerRewrittenFirst ==
    Constructed =>
        \A i \in 1..Len(ctx.func) :
            OccCount(MetOccurrences(CallNode)[i].children[3]) > 0 =>
                /\ AtomCount(ctx.func[i].expr, "__walrus_wrapper_") > 0
                /\ DefCount(ctx.func[i].expr) = 0
                /\ AtomCount(ctx.func[i].expr, " = locales().get(") = 0

\* a line of the output is the `def` line of a helper
IsDefLine(line) ==
    /\ Len(line) > LeadingSpaces(line)
    /\ line[LeadingSpaces(line) + 1] = "def "

\* C5: a helper made at column c with tab size t has its `def` line at
\* column c and the line after it, the first line of its body, indented by
\* c + t spaces
C5_BodyIndentedByTabsize ==
    (Constructed /\ ctx.func # <<>>) =>
        \E lines \in {Splitlines(ctx.string)} :
            \A i \in 1..Len(lines) :
                IsDefLine(lines[i]) =>
                    /\ LeadingSpaces(lines[i]) = ctx.column
                    /\ i < Len(lines)
                    /\ LeadingSpaces(lines[i + 1]) = ctx.column + ctx.tabsize

\* a line of the output was generated by the scope
IsGenerated(line) == \E i \in 1..Len(line) : line[i] \in GeneratedAtoms

\* C6: guess_linesep returns the bucket with the strictly highest count
\* whatever is configured, and with a majority of CRLF every generated line
\* ends in CRLF
C6_MajoritySeparatorWins ==
    (/\ pc \in {"constructed", "raised"}
     /\ call.linesep = <<>>
     /\ raised # "AttributeError"
     /\ Majority(GetCode(call.root)) # <<>>) =>
        /\ raised = ""
        /\ ctx.linesep = Majority(GetCode(call.root))
        /\ Majority(GetCode(call.root)) = CRLF =>
               \E lines \in {Splitlines(ctx.string)} :
                   \A i \in 1..Len(lines) :
                       IsGenerated(lines[i]) => EndsWith(lines[i], CRLF)

\* C9: the helpers of occurrences whose scope is the module bind with
\* `global`, at any column and nesting, and those whose scope is a function
\* bind with `nonlocal`
C9_KeywordByScope ==
    (Constructed /\ ctx.func # <<>>) =>
        /\ ScopeOf(call.root, call.path) = "module" =>
               AtomCount(ctx.string, "nonlocal") = 0
        /\ ScopeOf(call.root, call.path) = "funcdef" =>
               AtomCount(ctx.string, "global") = 0

\* C10: a function or class definition met by the traversal passes through:
\* its source text stands unchanged in the output of the scope, and nothing
\* is recorded for the occurrences inside it
C10_DefinitionsPassThrough ==
    Constructed =>
        /\ \A i \in 1..Len(MetDefinitions(CallNode)) :
               Contains(ctx.string, GetCode(MetDefinitions(CallNode)[i]))
        /\ Len(ctx.func) = Len(MetOccurrences(CallNode))
        /\ Len(ctx.vars) = Len(MetOccurrences(CallNode))

-----------------------------------------------------------------------------
(* Properties of main's run over its file list, under SpecPool *)

\* the process w is inside its walrus() call with the file open
HasOpen(w, path) ==
    /\ procs[w].pc \in {"reading", "writing"}
    /\ procs[w].filename = path

\* no file is open in two walrus() calls at once
OneCallPerFile ==
    \A v, w \in DOMAIN procs : \A path \in RegularFiles :
        (HasOpen(v, path) /\ HasOpen(w, path)) => v = w

\* what one conversion makes of the text: the converted text, or the text
\* itself when convert raises
ConversionOf(string) ==
    With(Convert(string), LAMBDA result :
        IF result.raised = "" THEN result.value ELSE string)

\* main has ended and every file of the list holds the conversion of the
\* content it had before main ran
EveryFileConverted ==
    \A i \in 1..Len(filelist) :
        disk[filelist[i]] = ConversionOf(disk0[filelist[i]])

\* C11: when main converts its file list with a pool of processes, no file is
\* read or written by one walrus call while another walrus call reads or
\* writes the same file, for every command line (a path named twice or a file
\* named with its directory included), and once main has ended every file
\* holds the conversion of its original content
C11_PoolCallsIndependent ==
    (~Sequential /\ pc \in {"pool", "done", "raised"}) =>
        /\ OneCallPerFile
        /\ (pc \in {"done", "raised"} /\ filelist # <<>>) => EveryFileConverted

====
